---------------------------- MODULE Spec2Model ----------------------------
(***************************************************************************)
(* A model of dnsfilter/dnsfilter.go: the DNS filtering decision pipeline  *)
(* (CheckHost, processRewrites, matchBlockedServicesRules, matchHost) and  *)
(* the hot-reloadable rule engines (SetFilters, filtersInitializer,        *)
(* initFiltering, reset, Close, Start).                                    *)
(*                                                                         *)
(* Host names are sequences of one-letter strings, so that lower-casing is *)
(* a computed conversion.  Rule texts, service names and addresses are     *)
(* strings.  A nil net.IP is "nil"; the empty, non-nil net.IP{} is "".     *)
(***************************************************************************)
EXTENDS Integers, Sequences, FiniteSets, TLC

(***************************************************************************)
(* Reason (dnsfilter.go:111-138) and the DNS record types.                 *)
(***************************************************************************)
NotFilteredNotFound == 0
NotFilteredWhiteList == 1
NotFilteredError == 2
FilteredBlackList == 3
FilteredSafeBrowsing == 4
FilteredParental == 5
FilteredInvalid == 6
FilteredSafeSearch == 7
FilteredBlockedService == 8
ReasonRewrite == 9

TypeA == 1
TypeCNAME == 5
TypeAAAA == 28

NilIP == "nil"
EmptyIP == ""

\* Reason.Matched
Matched(r) == r # NotFilteredNotFound

\* The zero value of Result
ZeroResult ==
    [IsFiltered |-> FALSE, Reason |-> NotFilteredNotFound, Rule |-> "",
     IP |-> NilIP, FilterID |-> 0, CanonName |-> <<>>, IPList |-> <<>>,
     ServiceName |-> ""]

(***************************************************************************)
(* Host names.                                                             *)
(***************************************************************************)
\* a lower-casing that leaves every letter as it is
LowerCharKeeps(c) == c

\* the upper-case letters and, at the same place, their lower-case forms
UpperLetters ==
    <<"A", "B", "C", "D", "E", "F", "G", "H", "I", "J", "K", "L", "M",
      "N", "O", "P", "Q", "R", "S", "T", "U", "V", "W", "X", "Y", "Z">>
LowerLetters ==
    <<"a", "b", "c", "d", "e", "f", "g", "h", "i", "j", "k", "l", "m",
      "n", "o", "p", "q", "r", "s", "t", "u", "v", "w", "x", "y", "z">>

\* strings.ToLower on one letter: every upper-case letter becomes its
\* lower-case form, every other character stays
LowerChar(c) ==
    IF \E i \in DOMAIN UpperLetters : UpperLetters[i] = c
    THEN LowerLetters[CHOOSE i \in DOMAIN UpperLetters : UpperLetters[i] = c]
    ELSE c

\* strings.ToLower
ToLower(h) == [i \in DOMAIN h |-> LowerChar(h[i])]

hA == <<"a">>
hB == <<"b">>
hC == <<"c">>
hUpA == <<"A">>
hUpC == <<"C">>
hAB == <<"a", "b">>
hUpAB == <<"A", "B">>
hEmpty == <<>>


(***************************************************************************)
(* Rules and the rule engine.  A rule is matched by pattern equality with  *)
(* the host name; the pattern grammar belongs to the urlfilter library.    *)
(***************************************************************************)
NoRule == [Kind |-> "none", Text |-> "", Pattern |-> <<>>, Whitelist |-> FALSE,
           IP |-> NilIP, ListID |-> 0]

NetRule(text, pat, wl) ==
    [Kind |-> "net", Text |-> text, Pattern |-> pat, Whitelist |-> wl,
     IP |-> NilIP, ListID |-> 0]

HostRule4(text, pat, ip) ==
    [Kind |-> "host4", Text |-> text, Pattern |-> pat, Whitelist |-> FALSE,
     IP |-> ip, ListID |-> 0]

HostRule6(text, pat, ip) ==
    [Kind |-> "host6", Text |-> text, Pattern |-> pat, Whitelist |-> FALSE,
     IP |-> ip, ListID |-> 0]

\* rules.NetworkRule.Match on the request synthesized for a host name
RuleMatch(rule, host) == rule.Kind = "net" /\ rule.Pattern = host

RECURSIVE FlattenLists(_)
\* the rules of a storage's lists, each tagged with the ID of its list
FlattenLists(lists) ==
    IF lists = <<>> THEN <<>>
    ELSE LET l == Head(lists)
         IN [i \in DOMAIN l.Rules |-> [l.Rules[i] EXCEPT !.ListID = l.ID]]
            \o FlattenLists(Tail(lists))

\* urlfilter.DNSEngine.Match: at most one network rule (an allow rule before a
\* block rule), else the host rules of both families in storage order
EngineMatch(lists, host) ==
    LET all == FlattenLists(lists)
        net == SelectSeq(all, LAMBDA r : RuleMatch(r, host))
        netW == SelectSeq(net, LAMBDA r : r.Whitelist)
        v4  == SelectSeq(all, LAMBDA r : r.Kind = "host4" /\ r.Pattern = host)
        v6  == SelectSeq(all, LAMBDA r : r.Kind = "host6" /\ r.Pattern = host)
    IN IF host = <<>> THEN
            [ok |-> FALSE, NetworkRule |-> NoRule, HostRulesV4 |-> <<>>, HostRulesV6 |-> <<>>]
       ELSE IF net # <<>> THEN
            [ok |-> TRUE, NetworkRule |-> IF netW # <<>> THEN netW[1] ELSE net[1],
             HostRulesV4 |-> <<>>, HostRulesV6 |-> <<>>]
       ELSE [ok |-> v4 # <<>> \/ v6 # <<>>, NetworkRule |-> NoRule,
             HostRulesV4 |-> v4, HostRulesV6 |-> v6]

\* matchHost that looks at the host rules before the network rule
matchResultHostFirst(rr, qtype) ==
    IF ~rr.ok THEN ZeroResult
    ELSE IF qtype = TypeA /\ rr.HostRulesV4 # <<>> THEN
        [ZeroResult EXCEPT !.FilterID = rr.HostRulesV4[1].ListID,
                           !.Rule = rr.HostRulesV4[1].Text,
                           !.Reason = FilteredBlackList,
                           !.IsFiltered = TRUE,
                           !.IP = rr.HostRulesV4[1].IP]
    ELSE IF qtype = TypeAAAA /\ rr.HostRulesV6 # <<>> THEN
        [ZeroResult EXCEPT !.FilterID = rr.HostRulesV6[1].ListID,
                           !.Rule = rr.HostRulesV6[1].Text,
                           !.Reason = FilteredBlackList,
                           !.IsFiltered = TRUE,
                           !.IP = rr.HostRulesV6[1].IP]
    ELSE IF rr.NetworkRule # NoRule THEN
        [ZeroResult EXCEPT !.FilterID = rr.NetworkRule.ListID,
                           !.Rule = rr.NetworkRule.Text,
                           !.Reason = IF rr.NetworkRule.Whitelist
                                      THEN NotFilteredWhiteList ELSE FilteredBlackList,
                           !.IsFiltered = ~rr.NetworkRule.Whitelist]
    ELSE ZeroResult

\* matchHost, lines 523-584: the Result for an engine's answer
matchResult(rr, qtype) ==
    IF ~rr.ok THEN ZeroResult
    ELSE IF rr.NetworkRule # NoRule THEN
        [ZeroResult EXCEPT !.FilterID = rr.NetworkRule.ListID,
                           !.Rule = rr.NetworkRule.Text,
                           !.Reason = IF rr.NetworkRule.Whitelist
                                      THEN NotFilteredWhiteList ELSE FilteredBlackList,
                           !.IsFiltered = ~rr.NetworkRule.Whitelist]
    ELSE IF qtype = TypeA /\ rr.HostRulesV4 # <<>> THEN
        [ZeroResult EXCEPT !.FilterID = rr.HostRulesV4[1].ListID,
                           !.Rule = rr.HostRulesV4[1].Text,
                           !.Reason = FilteredBlackList,
                           !.IsFiltered = TRUE,
                           !.IP = rr.HostRulesV4[1].IP]
    ELSE IF qtype = TypeAAAA /\ rr.HostRulesV6 # <<>> THEN
        [ZeroResult EXCEPT !.FilterID = rr.HostRulesV6[1].ListID,
                           !.Rule = rr.HostRulesV6[1].Text,
                           !.Reason = FilteredBlackList,
                           !.IsFiltered = TRUE,
                           !.IP = rr.HostRulesV6[1].IP]
    ELSE IF rr.HostRulesV4 # <<>> \/ rr.HostRulesV6 # <<>> THEN
        LET rule == IF rr.HostRulesV4 # <<>> THEN rr.HostRulesV4[1] ELSE rr.HostRulesV6[1]
        IN [ZeroResult EXCEPT !.Reason = FilteredBlackList,
                              !.IsFiltered = TRUE,
                              !.FilterID = rule.ListID,
                              !.Rule = rule.Text,
                              !.IP = EmptyIP]
    ELSE ZeroResult

\* matchHost, lines 515-584, for an engine pointer (nil or not) and the answer
\* engine.Match gives
matchHostAnswer(engineIsNil, rr, qtype) ==
    IF engineIsNil THEN ZeroResult ELSE matchResult(rr, qtype)

\* An engine is the list array of its storage; NilEngine is the nil pointer.
NilEngine == [nil |-> TRUE, lists |-> <<>>]
Engine(lists) == [nil |-> FALSE, lists |-> lists]

\* matchHost with the engine lock held: lines 515-584
matchHost(engine, host, qtype) ==
    IF engine.nil THEN ZeroResult
    ELSE matchResult(EngineMatch(engine.lists, host), qtype)

(***************************************************************************)
(* Rule sources and createFilteringEngine.                                 *)
(***************************************************************************)
ruleBlockA == NetRule("||a^", hA, FALSE)
ruleBlockB == NetRule("||b^", hB, FALSE)
ruleAllowA == NetRule("@@||a^", hA, TRUE)
ruleHost4B == HostRule4("1.1.1.1 b", hB, "1.1.1.1")
ruleHost6B == HostRule6("::1 b", hB, "::1")
ruleHost4C == HostRule4("2.2.2.2 c", hC, "2.2.2.2")
ruleHost6C == HostRule6("::2 c", hC, "::2")

\* The files a Filter's FilePath may name: present or not, readable or not.
FileSystem ==
    [p \in {"", "gone.txt", "list.txt", "locked.txt"} |->
        CASE p = "list.txt"   -> [exists |-> TRUE,  readable |-> TRUE,  rules |-> <<ruleBlockB>>]
          [] p = "locked.txt" -> [exists |-> TRUE,  readable |-> FALSE, rules |-> <<>>]
          [] OTHER            -> [exists |-> FALSE, readable |-> FALSE, rules |-> <<>>]]

fileExists(fn) == FileSystem[fn].exists

\* runtime.GOOS of the build
GOOS == "linux"

Filter(id, data, path) == [ID |-> id, Data |-> data, FilePath |-> path]

RECURSIVE buildListArray(_)
\* createFilteringEngine, lines 439-477: the list array, or the first error
buildListArray(filters) ==
    IF filters = <<>> THEN [err |-> FALSE, lists |-> <<>>]
    ELSE LET f == Head(filters)
             rest == buildListArray(Tail(filters))
         IN IF f.ID = 0 THEN
                 [rest EXCEPT !.lists =
                    <<[ID |-> 0, Rules |-> f.Data, file |-> FALSE]>> \o @]
            ELSE IF ~fileExists(f.FilePath) THEN
                 [rest EXCEPT !.lists =
                    <<[ID |-> f.ID, Rules |-> <<>>, file |-> FALSE]>> \o @]
            ELSE IF ~FileSystem[f.FilePath].readable THEN
                 [err |-> TRUE, lists |-> <<>>]
            ELSE [rest EXCEPT !.lists =
                    <<[ID |-> f.ID, Rules |-> FileSystem[f.FilePath].rules,
                       file |-> GOOS # "windows"]>> \o @]

\* filterlist.NewRuleStorage refuses two lists with one ID
duplicateListID(lists) ==
    \E i, j \in DOMAIN lists : i # j /\ lists[i].ID = lists[j].ID

\* createFilteringEngine, lines 438-485
createFilteringEngine(filters) ==
    LET la == buildListArray(filters)
    IN IF la.err THEN [err |-> TRUE, lists |-> <<>>]
       ELSE IF duplicateListID(la.lists) THEN [err |-> TRUE, lists |-> <<>>]
       ELSE [err |-> FALSE, lists |-> la.lists]

(***************************************************************************)
(* The rewrite table and processRewrites.                                  *)
(***************************************************************************)
RewriteEntry(domain, type, answer, ip) ==
    [Domain |-> domain, Type |-> type, Answer |-> answer, IP |-> ip]

isWildcard(domain) == Len(domain) >= 2 /\ domain[1] = "*"

\* a wildcard domain <<"*">> \o suffix matches every longer host ending in suffix
matchDomainWildcard(host, wildcard) ==
    LET n == Len(wildcard) - 1
    IN /\ Len(host) > n
       /\ \A i \in 1..n : host[Len(host) - n + i] = wildcard[1 + i]

\* findRewrites: the entries of the table that match the host, in table order
findRewrites(table, host) ==
    SelectSeq(table, LAMBDA r : r.Domain = host
                                \/ (isWildcard(r.Domain) /\ matchDomainWildcard(host, r.Domain)))

\* processRewrites, lines 370-381: the state before the CNAME loop
rewriteStart(table, host) ==
    LET rr == findRewrites(table, host)
    IN [host |-> host, origHost |-> host, rr |-> rr, cnames |-> {},
        res |-> [ZeroResult EXCEPT !.Reason = IF Len(rr) # 0 THEN ReasonRewrite ELSE @],
        returned |-> FALSE, hops |-> 0]

\* processRewrites, line 382: the loop condition
rewriteLoops(st) ==
    ~st.returned /\ Len(st.rr) # 0 /\ st.rr[1].Type = TypeCNAME

\* rewriteIter without the cycle guard of lines 385-389
rewriteIterNoGuard(table, st) ==
    LET host == st.rr[1].Answer
    IN [st EXCEPT !.host = host,
                  !.cnames = @ \cup {host},
                  !.res = [@ EXCEPT !.CanonName = st.rr[1].Answer],
                  !.rr = findRewrites(table, host),
                  !.hops = @ + 1]

\* processRewrites, lines 383-392: one iteration of the CNAME loop
rewriteIter(table, st) ==
    LET host == st.rr[1].Answer
    IN IF host \in st.cnames
       THEN [st EXCEPT !.host = host, !.returned = TRUE, !.hops = @ + 1]
       ELSE [st EXCEPT !.host = host,
                       !.cnames = @ \cup {host},
                       !.res = [@ EXCEPT !.CanonName = st.rr[1].Answer],
                       !.rr = findRewrites(table, host),
                       !.hops = @ + 1]

RECURSIVE collectIPsAnyType(_, _)
\* collectIPs with the comparison to the queried type left out
collectIPsAnyType(rr, qtype) ==
    IF rr = <<>> THEN <<>>
    ELSE (IF Head(rr).Type # TypeCNAME
          THEN <<Head(rr).IP>> ELSE <<>>) \o collectIPsAnyType(Tail(rr), qtype)

RECURSIVE collectIPs(_, _)
\* processRewrites, lines 395-400: the addresses of the entries of the queried type
collectIPs(rr, qtype) ==
    IF rr = <<>> THEN <<>>
    ELSE (IF Head(rr).Type # TypeCNAME /\ Head(rr).Type = qtype
          THEN <<Head(rr).IP>> ELSE <<>>) \o collectIPs(Tail(rr), qtype)

\* processRewrites, lines 388 and 395-402: the Result once the loop is left
rewriteFinish(st, qtype) ==
    IF st.returned THEN st.res
    ELSE [st.res EXCEPT !.IPList = @ \o collectIPs(st.rr, qtype)]

RECURSIVE rewriteLoop(_, _)
rewriteLoop(table, st) ==
    IF rewriteLoops(st) THEN rewriteLoop(table, rewriteIter(table, st)) ELSE st

\* processRewrites, lines 369-403
processRewrites(table, host, qtype) ==
    rewriteFinish(rewriteLoop(table, rewriteStart(table, host)), qtype)

(***************************************************************************)
(* matchBlockedServicesRules.                                              *)
(***************************************************************************)
ServiceEntry(name, rules) == [Name |-> name, Rules |-> rules]

RECURSIVE firstRule(_, _)
\* lines 410-420: the first rule of a service that matches, or NoRule
firstRule(rules, host) ==
    IF rules = <<>> THEN NoRule
    ELSE IF RuleMatch(Head(rules), host) THEN Head(rules)
    ELSE firstRule(Tail(rules), host)

RECURSIVE matchBlockedServicesRulesLast(_, _)
\* matchBlockedServicesRules without the return of line 418: the last match stays
matchBlockedServicesRulesLast(host, svcs) ==
    IF svcs = <<>> THEN ZeroResult
    ELSE LET s == Head(svcs)
             rule == firstRule(s.Rules, host)
             later == matchBlockedServicesRulesLast(host, Tail(svcs))
         IN IF rule # NoRule /\ later = ZeroResult
            THEN [ZeroResult EXCEPT !.Reason = FilteredBlockedService,
                                    !.IsFiltered = TRUE,
                                    !.ServiceName = s.Name,
                                    !.Rule = rule.Text]
            ELSE later

RECURSIVE matchBlockedServicesRules(_, _)
\* lines 405-423
matchBlockedServicesRules(host, svcs) ==
    IF svcs = <<>> THEN ZeroResult
    ELSE LET s == Head(svcs)
             rule == firstRule(s.Rules, host)
         IN IF rule # NoRule
            THEN [ZeroResult EXCEPT !.Reason = FilteredBlockedService,
                                    !.IsFiltered = TRUE,
                                    !.ServiceName = s.Name,
                                    !.Rule = rule.Text]
            ELSE matchBlockedServicesRules(host, Tail(svcs))

(***************************************************************************)
(* CheckHost.  The external classifiers answer as the environment says:    *)
(* "none" (no decision), "match" or "err".                                 *)
(***************************************************************************)
classify(outcome, reason) ==
    [res |-> IF outcome = "match"
             THEN [ZeroResult EXCEPT !.Reason = reason, !.IsFiltered = TRUE]
             ELSE ZeroResult,
     err |-> outcome = "err"]

checkSafeSearch(env, host) == classify(env.safeSearch, FilteredSafeSearch)
checkSafeBrowsing(env, host) == classify(env.safeBrowsing, FilteredSafeBrowsing)
checkParental(env, host) == classify(env.parental, FilteredParental)

Ret(res, trace) == [res |-> res, err |-> FALSE, trace |-> trace]

\* CheckHost, lines 349-360
parentalStage(host, setts, env, trace) ==
    IF setts.ParentalEnabled THEN
        LET c == checkParental(env, host)
            tr == Append(trace, "parental")
        IN IF c.err THEN Ret(ZeroResult, tr)
           ELSE IF Matched(c.res.Reason) THEN Ret(c.res, tr)
           ELSE Ret(ZeroResult, tr)
    ELSE Ret(ZeroResult, trace)

\* CheckHost, lines 338-347
safeBrowsingStage(host, setts, env, trace) ==
    IF setts.SafeBrowsingEnabled THEN
        LET c == checkSafeBrowsing(env, host)
            tr == Append(trace, "safebrowsing")
        IN IF c.err THEN Ret(ZeroResult, tr)
           ELSE IF Matched(c.res.Reason) THEN Ret(c.res, tr)
           ELSE parentalStage(host, setts, env, tr)
    ELSE parentalStage(host, setts, env, trace)

\* the safe-search stage going on to the next stage after an error
safeSearchStageSkipsError(host, setts, env, trace) ==
    IF setts.SafeSearchEnabled THEN
        LET c == checkSafeSearch(env, host)
            tr == Append(trace, "safesearch")
        IN IF ~c.err /\ Matched(c.res.Reason) THEN Ret(c.res, tr)
           ELSE safeBrowsingStage(host, setts, env, tr)
    ELSE safeBrowsingStage(host, setts, env, trace)

\* CheckHost, lines 326-336
safeSearchStage(host, setts, env, trace) ==
    IF setts.SafeSearchEnabled THEN
        LET c == checkSafeSearch(env, host)
            tr == Append(trace, "safesearch")
        IN IF c.err THEN Ret(ZeroResult, tr)
           ELSE IF Matched(c.res.Reason) THEN Ret(c.res, tr)
           ELSE safeBrowsingStage(host, setts, env, tr)
    ELSE safeBrowsingStage(host, setts, env, trace)

\* CheckHost, lines 319-324
servicesStage(host, setts, env, trace) ==
    IF Len(setts.ServicesRules) # 0 THEN
        LET r == matchBlockedServicesRules(host, setts.ServicesRules)
            tr == Append(trace, "services")
        IN IF Matched(r.Reason) THEN Ret(r, tr)
           ELSE safeSearchStage(host, setts, env, tr)
    ELSE safeSearchStage(host, setts, env, trace)

\* CheckHost, line 305: the block-pair answer that is re-checked against the allow pair
needsWhiteCheck(result) == result.Reason = FilteredBlackList

\* whiteOverride that keeps the block pair's answer
whiteOverrideKeeps(result, resultWhite) == result

\* CheckHost, lines 310-312
whiteOverride(result, resultWhite) ==
    IF Matched(resultWhite.Reason) THEN ZeroResult ELSE result

\* CheckHost going on to the later stages whatever the rule lists decided
afterRulesGoesOn(host, setts, env, result, trace) ==
    servicesStage(host, setts, env, trace)

\* CheckHost, lines 314-360: from the end of the rule-list stage
afterRules(host, setts, env, result, trace) ==
    IF Matched(result.Reason) THEN Ret(result, trace)
    ELSE servicesStage(host, setts, env, trace)

\* CheckHost, lines 300-317, on engines that no rebuild replaces meanwhile
rulesStage(host, qtype, setts, env, trace) ==
    IF setts.FilteringEnabled THEN
        LET result == matchHost(env.filteringEngine, host, qtype)
            tr1 == Append(trace, "block")
        IN IF needsWhiteCheck(result)
           THEN afterRules(host, setts, env,
                           whiteOverride(result, matchHost(env.filteringEngineWhite, host, qtype)),
                           Append(tr1, "allow"))
           ELSE afterRules(host, setts, env, result, tr1)
    ELSE servicesStage(host, setts, env, trace)

\* CheckHost that returns a rewrite only when it carries addresses
CheckHostRewriteWithIPs(host0, qtype, setts, env) ==
    IF host0 = <<>> THEN Ret([ZeroResult EXCEPT !.Reason = NotFilteredNotFound], <<>>)
    ELSE LET host == ToLower(host0)
             result == processRewrites(env.Rewrites, host, qtype)
         IN IF result.Reason = ReasonRewrite /\ result.IPList # <<>>
            THEN Ret(result, <<"rewrites">>)
            ELSE rulesStage(host, qtype, setts, env, <<"rewrites">>)

\* CheckHost without the empty-host return of lines 286-288
CheckHostNoEmptyGuard(host0, qtype, setts, env) ==
    LET host == ToLower(host0)
        result == processRewrites(env.Rewrites, host, qtype)
    IN IF result.Reason = ReasonRewrite THEN Ret(result, <<"rewrites">>)
       ELSE rulesStage(host, qtype, setts, env, <<"rewrites">>)

\* CheckHost, lines 284-361
CheckHost(host0, qtype, setts, env) ==
    IF host0 = <<>> THEN Ret([ZeroResult EXCEPT !.Reason = NotFilteredNotFound], <<>>)
    ELSE LET host == ToLower(host0)
             result == processRewrites(env.Rewrites, host, qtype)
         IN IF result.Reason = ReasonRewrite THEN Ret(result, <<"rewrites">>)
            ELSE rulesStage(host, qtype, setts, env, <<"rewrites">>)

\* CheckHostRules, lines 273-280
CheckHostRules(host, qtype, setts, env) ==
    IF ~setts.FilteringEnabled THEN Ret(ZeroResult, <<>>)
    ELSE Ret(matchHost(env.filteringEngine, host, qtype), <<"block">>)

(***************************************************************************)
(* The hot-reload manager: state and bounds.                               *)
(***************************************************************************)
Threads == {"t1", "t2"}
NoProc == "none"

\* how many calls (Start, SetFilters, Close, CheckHost) the callers make in
\* one run
MaxCalls == 4

\* The filtersInitializer goroutines, in the order the calls of Start launch
\* them: every call of Start launches one.
WorkerNames == <<"w1", "w2", "w3", "w4", "w5", "w6">>
Workers == {WorkerNames[i] : i \in 1..MaxCalls}
Procs == Threads \cup Workers

\* The (filters, whiteFilters) arguments SetFilters is called with: a pair of
\* lists that builds, one whose block list cannot be read, and one whose allow
\* lists share an ID.
inlineA == <<Filter(0, <<ruleBlockA>>, "")>>
Configs ==
    { [filters |-> <<Filter(0, <<ruleBlockA>>, ""), Filter(1, <<>>, "list.txt")>>,
       whiteFilters |-> inlineA],
      [filters |-> <<Filter(1, <<>>, "locked.txt")>>, whiteFilters |-> <<>>],
      [filters |-> inlineA,
       whiteFilters |-> <<Filter(2, <<>>, "gone.txt"), Filter(2, <<>>, "gone.txt")>>] }

\* the settings and question of the concurrent readers
readerSetts ==
    [FilteringEnabled |-> TRUE, SafeSearchEnabled |-> FALSE,
     SafeBrowsingEnabled |-> FALSE, ParentalEnabled |-> FALSE,
     ServicesRules |-> <<>>]
readerEnv ==
    [Rewrites |-> <<>>, filteringEngine |-> NilEngine, filteringEngineWhite |-> NilEngine,
     safeSearch |-> "none", safeBrowsing |-> "none", parental |-> "none"]

VARIABLES
    pc,                    \* where each caller thread and each worker stands
    loc,                   \* their local variables
    chans,                 \* the buffer of every channel Start has made, in
                           \* the order made; filtersInitializerChan is the
                           \* last one, and nil while there is none
    initLock,              \* the holder of filtersInitializerLock
    engineWriter,          \* the holder of engineLock for writing
    engineReaders,         \* the holders of engineLock for reading
    storages,              \* every rule storage built so far
    rulesStorage, filteringEngine,            \* 0 is nil
    rulesStorageWhite, filteringEngineWhite,
    ops,                   \* calls made so far
    sent,                  \* asynchronous requests enqueued so far
    log,                   \* what the rebuilds and the readers did (history)
    pin, pout,             \* a pure function's arguments and its value
    rw                     \* the state of a stepwise processRewrites

vars == <<pc, loc, chans, initLock, engineWriter, engineReaders, storages,
          rulesStorage, filteringEngine, rulesStorageWhite, filteringEngineWhite,
          ops, sent, log, pin, pout, rw>>

engineVars == <<storages, rulesStorage, filteringEngine,
                rulesStorageWhite, filteringEngineWhite>>
lockVars == <<engineWriter, engineReaders>>
chanVars == <<chans, initLock, sent>>

\* filtersInitializerChan is not nil
chanMade == chans # <<>>

\* the requests buffered in the channel filtersInitializerChan holds now
chan == IF chanMade THEN chans[Len(chans)] ELSE <<>>
pureVars == <<pin, pout, rw>>

NoLoc ==
    [filters |-> <<>>, whiteFilters |-> <<>>, req |-> 0, async |-> FALSE, gen |-> 0,
     ch |-> 0,              \* the channel a worker waits on; 0: the field's
     rs |-> 0, rsw |-> 0, err |-> FALSE,
     host |-> <<>>, qtype |-> TypeA, white |-> FALSE, engine |-> 0,
     result |-> ZeroResult, eBlack |-> 0, eWhite |-> 0, ret |-> ZeroResult]

NoLog ==
    [gens |-> 0,            \* initFiltering calls that took the lock
     deq |-> <<>>,          \* the requests the workers received, in order
     deqAtThird |-> -1,     \* how many they had received when the third was sent
     chansAtFirst |-> 0,    \* how many channels were made when the first was sent
     returned |-> <<>>,     \* the initFiltering calls that returned
     installs |-> <<>>,     \* the installs of a block and allow pair
     mixed |-> FALSE,       \* a CheckHost matched pairs of two rebuilds
     staleRead |-> FALSE]   \* a match ran on a closed storage

Storage(lists, gen) == [lists |-> lists, closes |-> 0, gen |-> gen]

\* the engine a field's value stands for
engineOf(id) == IF id = 0 THEN NilEngine ELSE Engine(storages[id].lists)

\* filterlist.RuleStorage.Close on storage id
closeStorage(sts, id) == [sts EXCEPT ![id].closes = @ + 1]

\* New, lines 626-633: the engines after New(c, filters)
NewStorages(filters) ==
    IF filters = <<>> THEN <<>>
    ELSE <<Storage(createFilteringEngine(filters).lists, 0),
           Storage(createFilteringEngine(<<>>).lists, 0)>>

InitHotReload ==
    /\ pc = [p \in Procs |-> IF p \in Workers THEN "w_off" ELSE "idle"]
    /\ loc = [p \in Procs |-> NoLoc]
    /\ chans = <<>>
    /\ initLock = NoProc
    /\ engineWriter = NoProc
    /\ engineReaders = {}
    /\ \E filters \in {<<>>, inlineA} :
          /\ storages = NewStorages(filters)
          /\ rulesStorage = IF filters = <<>> THEN 0 ELSE 1
          /\ filteringEngine = IF filters = <<>> THEN 0 ELSE 1
          /\ rulesStorageWhite = IF filters = <<>> THEN 0 ELSE 2
          /\ filteringEngineWhite = IF filters = <<>> THEN 0 ELSE 2
    /\ ops = 0
    /\ sent = 0
    /\ log = NoLog

NoPure == [op |-> "none"]
NoRw == [host |-> <<>>, origHost |-> <<>>, rr |-> <<>>, cnames |-> {},
         res |-> ZeroResult, returned |-> FALSE, hops |-> 0,
         table |-> <<>>, qtype |-> TypeA, pc |-> "off"]

Init ==
    /\ InitHotReload
    /\ pin = NoPure
    /\ pout = NoPure
    /\ rw = NoRw

(***************************************************************************)
(* Start and SetFilters.                                                   *)
(***************************************************************************)
\* make(chan filtersInitializerParams, 1)
ChanCap == 1

\* the workers that stand at the receive of line 220
atRecv == {w \in Workers : pc[w] = "w_recv" /\ loc[w].ch = 0}

\* Start, lines 641-643. Nothing keeps it from being called again: every call
\* stores a new, empty channel in filtersInitializerChan and launches one more
\* filtersInitializer. What the replaced channel holds stays in it. A worker
\* at the receive of line 220 has either read the field already, and then
\* waits on the replaced channel for good, or will read the new one.
Start ==
    /\ ops < MaxCalls
    /\ ops' = ops + 1
    /\ \E waiting \in SUBSET atRecv :
          loc' = [p \in Procs |->
                    IF p \in waiting THEN [loc[p] EXCEPT !.ch = Len(chans)] ELSE loc[p]]
    /\ chans' = Append(chans, <<>>)
    /\ pc' = [pc EXCEPT ![WorkerNames[Len(chans) + 1]] = "w_recv"]
    /\ UNCHANGED <<initLock, sent, log>>
    /\ UNCHANGED <<engineVars, lockVars, pureVars>>

\* SetFilters(filters, whiteFilters, false), line 208: enters initFiltering
SetFiltersSync(t, cfg) ==
    /\ pc[t] = "idle"
    /\ ops < MaxCalls
    /\ ops' = ops + 1
    /\ loc' = [loc EXCEPT ![t] = [NoLoc EXCEPT !.filters = cfg.filters,
                                               !.whiteFilters = cfg.whiteFilters]]
    /\ pc' = [pc EXCEPT ![t] = "if_lock"]
    /\ UNCHANGED <<log>>
    /\ UNCHANGED <<engineVars, lockVars, chanVars, pureVars>>

\* SetFilters(filters, whiteFilters, true), lines 185-189
SetFiltersAsync(t, cfg) ==
    /\ pc[t] = "idle"
    /\ ops < MaxCalls
    /\ ops' = ops + 1
    /\ loc' = [loc EXCEPT ![t] = [NoLoc EXCEPT !.filters = cfg.filters,
                                               !.whiteFilters = cfg.whiteFilters,
                                               !.async = TRUE]]
    /\ pc' = [pc EXCEPT ![t] = "sf_lock"]
    /\ UNCHANGED <<log>>
    /\ UNCHANGED <<engineVars, lockVars, chanVars, pureVars>>

\* line 191: d.filtersInitializerLock.Lock()
AsyncLock(t) ==
    /\ pc[t] = "sf_lock"
    /\ initLock = NoProc
    /\ initLock' = t
    /\ pc' = [pc EXCEPT ![t] = "sf_drain"]
    /\ UNCHANGED <<loc, chans, sent, ops, log>>
    /\ UNCHANGED <<engineVars, lockVars, pureVars>>

\* SetFilters without the drain loop of lines 193-201
AsyncDrainSkip(t) ==
    /\ pc[t] = "sf_drain"
    /\ pc' = [pc EXCEPT ![t] = "sf_send"]
    /\ UNCHANGED <<loc, chans, initLock, sent, ops, log>>
    /\ UNCHANGED <<engineVars, lockVars, pureVars>>

\* lines 193-201: one turn of the drain loop; a nil channel is never ready
AsyncDrain(t) ==
    /\ pc[t] = "sf_drain"
    /\ \/ /\ chanMade /\ chan # <<>>
          /\ chans' = [chans EXCEPT ![Len(chans)] = Tail(@)]
          /\ pc' = pc
       \/ /\ ~(chanMade /\ chan # <<>>)
          /\ chans' = chans
          /\ pc' = [pc EXCEPT ![t] = "sf_send"]
    /\ UNCHANGED <<loc, initLock, sent, ops, log>>
    /\ UNCHANGED <<engineVars, lockVars, pureVars>>

\* line 203: d.filtersInitializerChan <- params; a send on a nil channel parks
\* the caller for good, a send on a full channel waits
AsyncSend(t) ==
    /\ pc[t] = "sf_send"
    /\ \/ /\ ~chanMade
          /\ pc' = [pc EXCEPT ![t] = "sf_nil"]
          /\ UNCHANGED <<chans, sent, log>>
       \/ /\ chanMade
          /\ Len(chan) < ChanCap
          /\ chans' = [chans EXCEPT ![Len(chans)] =
                          Append(@, [filters |-> loc[t].filters,
                                     whiteFilters |-> loc[t].whiteFilters,
                                     req |-> sent + 1])]
          /\ sent' = sent + 1
          /\ log' = [log EXCEPT !.deqAtThird = IF sent + 1 = 3 THEN Len(log.deq) ELSE @,
                                 !.chansAtFirst = IF sent + 1 = 1 THEN Len(chans) ELSE @]
          /\ pc' = [pc EXCEPT ![t] = "sf_unlock"]
    /\ UNCHANGED <<loc, initLock, ops>>
    /\ UNCHANGED <<engineVars, lockVars, pureVars>>

\* lines 204-205
AsyncUnlock(t) ==
    /\ pc[t] = "sf_unlock"
    /\ initLock' = NoProc
    /\ loc' = [loc EXCEPT ![t] = NoLoc]
    /\ pc' = [pc EXCEPT ![t] = "idle"]
    /\ UNCHANGED <<chans, sent, ops, log>>
    /\ UNCHANGED <<engineVars, lockVars, pureVars>>

\* the channel worker w receives from: the one it waits on, else the one the
\* field holds
recvChan(w) == IF loc[w].ch # 0 THEN loc[w].ch ELSE Len(chans)

\* the locals of a worker that has received request m
recvLoc(m) ==
    [NoLoc EXCEPT !.filters = m.filters, !.whiteFilters = m.whiteFilters,
                  !.req = m.req, !.async = TRUE]

\* filtersInitializer, lines 220-221: receive a request and enter initFiltering
WorkerRecv(w) ==
    /\ pc[w] = "w_recv"
    /\ chans[recvChan(w)] # <<>>
    /\ chans' = [chans EXCEPT ![recvChan(w)] = Tail(@)]
    /\ loc' = [loc EXCEPT ![w] = recvLoc(Head(chans[recvChan(w)]))]
    /\ log' = [log EXCEPT !.deq = Append(@, Head(chans[recvChan(w)]).req)]
    /\ pc' = [pc EXCEPT ![w] = "if_lock"]
    /\ UNCHANGED <<initLock, sent, ops>>
    /\ UNCHANGED <<engineVars, lockVars, pureVars>>

(***************************************************************************)
(* initFiltering, reset and Close.                                         *)
(***************************************************************************)
\* where initFiltering returns to: line 222 in the worker, line 209 in SetFilters
afterInit(p) == IF p \in Workers THEN "w_recv" ELSE "idle"

\* the locals of a caller that is back in its idle loop
locAfter(p, err) == NoLoc

returnedLog(p, err) ==
    IF p \in Workers THEN Append(log.returned, [req |-> loc[p].req, err |-> err])
    ELSE log.returned

\* line 489: d.engineLock.Lock()
InitLock(p) ==
    /\ pc[p] = "if_lock"
    /\ engineWriter = NoProc
    /\ engineReaders = {}
    /\ engineWriter' = p
    /\ log' = [log EXCEPT !.gens = @ + 1]
    /\ loc' = [loc EXCEPT ![p].gen = log.gens + 1]
    /\ pc' = [pc EXCEPT ![p] = "if_build"]
    /\ UNCHANGED <<engineReaders, ops>>
    /\ UNCHANGED <<engineVars, chanVars, pureVars>>

\* reset, lines 235-237
resetBlock(sts) == IF rulesStorage # 0 THEN closeStorage(sts, rulesStorage) ELSE sts

\* reset, lines 238-240
resetWhite(sts) ==
    IF rulesStorageWhite # 0 THEN closeStorage(sts, rulesStorageWhite) ELSE sts

\* reset, lines 234-241
reset(sts) == resetWhite(resetBlock(sts))

\* lines 490-498: release the installed pairs, build the block pair and the
\* allow pair, or return the first error
InitBuild(p) ==
    /\ pc[p] = "if_build"
    /\ LET b == createFilteringEngine(loc[p].filters)
           w == createFilteringEngine(loc[p].whiteFilters)
           sts == reset(storages)
       IN \/ /\ b.err
             /\ storages' = sts
             /\ pc' = [pc EXCEPT ![p] = afterInit(p)]
             /\ loc' = [loc EXCEPT ![p] = locAfter(p, TRUE)]
             /\ log' = [log EXCEPT !.returned = returnedLog(p, TRUE)]
          \/ /\ ~b.err /\ w.err
             /\ storages' = Append(sts, Storage(b.lists, loc[p].gen))
             /\ pc' = [pc EXCEPT ![p] = afterInit(p)]
             /\ loc' = [loc EXCEPT ![p] = locAfter(p, TRUE)]
             /\ log' = [log EXCEPT !.returned = returnedLog(p, TRUE)]
          \/ /\ ~b.err /\ ~w.err
             /\ storages' = sts \o <<Storage(b.lists, loc[p].gen),
                                     Storage(w.lists, loc[p].gen)>>
             /\ loc' = [loc EXCEPT ![p].rs = Len(storages) + 1,
                                   ![p].rsw = Len(storages) + 2]
             /\ pc' = [pc EXCEPT ![p] = "if_install1"]
             /\ UNCHANGED log
    /\ UNCHANGED <<ops, rulesStorage, filteringEngine,
                   rulesStorageWhite, filteringEngineWhite>>
    /\ UNCHANGED <<lockVars, chanVars, pureVars>>

\* lines 499-500
InitInstallBlock(p) ==
    /\ pc[p] = "if_install1"
    /\ rulesStorage' = loc[p].rs
    /\ filteringEngine' = loc[p].rs
    /\ log' = [log EXCEPT !.installs = IF p \in Workers THEN Append(@, loc[p].req) ELSE @]
    /\ pc' = [pc EXCEPT ![p] = "if_install2"]
    /\ UNCHANGED <<loc, ops, storages, rulesStorageWhite, filteringEngineWhite>>
    /\ UNCHANGED <<lockVars, chanVars, pureVars>>

\* lines 501-506: install the allow pair, unlock, return nil
InitInstallWhite(p) ==
    /\ pc[p] = "if_install2"
    /\ rulesStorageWhite' = loc[p].rsw
    /\ filteringEngineWhite' = loc[p].rsw
    /\ engineWriter' = NoProc
    /\ log' = [log EXCEPT !.returned = returnedLog(p, FALSE)]
    /\ loc' = [loc EXCEPT ![p] = locAfter(p, FALSE)]
    /\ pc' = [pc EXCEPT ![p] = afterInit(p)]
    /\ UNCHANGED <<ops, storages, rulesStorage, filteringEngine, engineReaders>>
    /\ UNCHANGED <<chanVars, pureVars>>

\* Close, line 231, first half of reset
Close1(t) ==
    /\ pc[t] = "idle"
    /\ ops < MaxCalls
    /\ ops' = ops + 1
    /\ storages' = resetBlock(storages)
    /\ loc' = [loc EXCEPT ![t] = NoLoc]
    /\ pc' = [pc EXCEPT ![t] = "cl_reset2"]
    /\ UNCHANGED <<log, rulesStorage, filteringEngine,
                   rulesStorageWhite, filteringEngineWhite>>
    /\ UNCHANGED <<lockVars, chanVars, pureVars>>

\* Close, second half of reset
Close2(t) ==
    /\ pc[t] = "cl_reset2"
    /\ storages' = resetWhite(storages)
    /\ pc' = [pc EXCEPT ![t] = "idle"]
    /\ UNCHANGED <<loc, ops, log, rulesStorage, filteringEngine,
                   rulesStorageWhite, filteringEngineWhite>>
    /\ UNCHANGED <<lockVars, chanVars, pureVars>>

(***************************************************************************)
(* A concurrent CheckHost: the two matchHost calls of lines 301 and 306    *)
(* each take and release the shared engine lock.                           *)
(***************************************************************************)
ReaderHosts == {hA, hB}

\* CheckHost, lines 284-301, with no rewrite for the host: up to matchHost
CheckHostBegin(t, host) ==
    /\ pc[t] = "idle"
    /\ ops < MaxCalls
    /\ host # <<>>
    /\ processRewrites(readerEnv.Rewrites, ToLower(host), TypeA).Reason # ReasonRewrite
    /\ readerSetts.FilteringEnabled
    /\ ops' = ops + 1
    /\ loc' = [loc EXCEPT ![t] = [NoLoc EXCEPT !.host = ToLower(host), !.qtype = TypeA]]
    /\ pc' = [pc EXCEPT ![t] = "mh_rlock"]
    /\ UNCHANGED <<log>>
    /\ UNCHANGED <<engineVars, lockVars, chanVars, pureVars>>

\* matchHost, lines 511-518: take the lock for reading, read the engine field
MatchRLock(t) ==
    /\ pc[t] = "mh_rlock"
    /\ engineWriter = NoProc
    /\ engineReaders' = engineReaders \cup {t}
    /\ loc' = [loc EXCEPT ![t].engine =
                  IF loc[t].white THEN filteringEngineWhite ELSE filteringEngine]
    /\ pc' = [pc EXCEPT ![t] = "mh_match"]
    /\ UNCHANGED <<engineWriter, ops, log>>
    /\ UNCHANGED <<engineVars, chanVars, pureVars>>

\* a closed storage no longer serves the rules of its file-backed lists
closedUnder(id) ==
    /\ id # 0
    /\ storages[id].closes > 0

\* what a match may answer: on a closed storage the rules of the file-backed
\* lists may or may not still be served
matchOutcomes(id, host, qtype) ==
    {matchHost(engineOf(id), host, qtype)}
    \cup (IF closedUnder(id)
          THEN {matchHost(Engine(SelectSeq(storages[id].lists, LAMBDA l : ~l.file)),
                          host, qtype)}
          ELSE {})

\* the stages of CheckHost after the rule lists, lines 314-360
checkHostEnd(t, result) ==
    afterRules(loc[t].host, readerSetts, readerEnv, result, <<>>).res

\* matchHost, lines 519-584 and the deferred RUnlock, then CheckHost lines 302-317
MatchRun(t) ==
    /\ pc[t] = "mh_match"
    /\ engineReaders' = engineReaders \ {t}
    /\ \E r \in matchOutcomes(loc[t].engine, loc[t].host, loc[t].qtype) :
          IF ~loc[t].white
          THEN IF needsWhiteCheck(r)
               THEN /\ loc' = [loc EXCEPT ![t].result = r, ![t].white = TRUE,
                                          ![t].eBlack = loc[t].engine]
                    /\ pc' = [pc EXCEPT ![t] = "mh_rlock"]
                    /\ log' = [log EXCEPT !.staleRead = @ \/ closedUnder(loc[t].engine)]
               ELSE /\ loc' = [loc EXCEPT ![t] = [NoLoc EXCEPT !.ret = checkHostEnd(t, r)]]
                    /\ pc' = [pc EXCEPT ![t] = "idle"]
                    /\ log' = [log EXCEPT !.staleRead = @ \/ closedUnder(loc[t].engine)]
          ELSE /\ loc' = [loc EXCEPT ![t] = [NoLoc EXCEPT
                                 !.ret = checkHostEnd(t, whiteOverride(loc[t].result, r))]]
               /\ pc' = [pc EXCEPT ![t] = "idle"]
               /\ log' = [log EXCEPT
                            !.staleRead = @ \/ closedUnder(loc[t].engine),
                            !.mixed = @ \/ (loc[t].engine # 0 /\
                                            storages[loc[t].engine].gen
                                              # storages[loc[t].eBlack].gen)]
    /\ UNCHANGED <<engineWriter, ops>>
    /\ UNCHANGED <<engineVars, chanVars, pureVars>>

(***************************************************************************)
(* The hot-reload manager with its callers.                                *)
(***************************************************************************)
Next ==
    \/ Start
    \/ \E t \in Threads, cfg \in Configs : SetFiltersSync(t, cfg)
    \/ \E t \in Threads, cfg \in Configs : SetFiltersAsync(t, cfg)
    \/ \E t \in Threads : AsyncLock(t)
    \/ \E t \in Threads : AsyncDrain(t)
    \/ \E t \in Threads : AsyncSend(t)
    \/ \E t \in Threads : AsyncUnlock(t)
    \/ \E w \in Workers : WorkerRecv(w)
    \/ \E p \in Procs : InitLock(p)
    \/ \E p \in Procs : InitBuild(p)
    \/ \E p \in Procs : InitInstallBlock(p)
    \/ \E p \in Procs : InitInstallWhite(p)
    \/ \E t \in Threads : Close1(t)
    \/ \E t \in Threads : Close2(t)
    \/ \E t \in Threads, host \in ReaderHosts : CheckHostBegin(t, host)
    \/ \E t \in Threads : MatchRLock(t)
    \/ \E t \in Threads : MatchRun(t)

Spec == Init /\ [][Next]_vars

\* one step of caller thread or worker p
ProcStep(p) ==
    \/ \E cfg \in Configs : SetFiltersSync(p, cfg)
    \/ \E cfg \in Configs : SetFiltersAsync(p, cfg)
    \/ AsyncLock(p) \/ AsyncDrain(p) \/ AsyncSend(p) \/ AsyncUnlock(p)
    \/ (p \in Workers /\ WorkerRecv(p))
    \/ InitLock(p) \/ InitBuild(p) \/ InitInstallBlock(p) \/ InitInstallWhite(p)
    \/ Close1(p) \/ Close2(p)
    \/ \E host \in ReaderHosts : CheckHostBegin(p, host)
    \/ MatchRLock(p) \/ MatchRun(p)

\* The scheduler runs every goroutine that can take a step.
FairSpec == Spec /\ \A p \in Procs : WF_vars(ProcStep(p))

(***************************************************************************)
(* Properties of the hot-reload manager.                                   *)
(***************************************************************************)
InInit(p) == pc[p] \in {"if_build", "if_install1", "if_install2"}

\* C1: a rebuild that fails (initFiltering returns the error of building the
\* block pair or the allow pair) leaves the installed pairs untouched: the
\* same storages stay installed and none of them is closed by the attempt.
C1_FailedRebuildLeavesInstalled ==
    [][\A p \in Procs :
          (pc[p] = "if_build" /\ pc'[p] = afterInit(p)) =>
             /\ UNCHANGED <<rulesStorage, filteringEngine,
                            rulesStorageWhite, filteringEngineWhite>>
             /\ rulesStorage # 0 =>
                   storages'[rulesStorage].closes = storages[rulesStorage].closes
             /\ rulesStorageWhite # 0 =>
                   storages'[rulesStorageWhite].closes = storages[rulesStorageWhite].closes
      ]_vars

\* C2: every rebuild attempt releases the exclusive engine lock: the lock is
\* held for writing only by a caller that is still inside initFiltering.
C2_RebuildReleasesLock ==
    \A p \in Procs : engineWriter = p => InInit(p)

\* every call of Start came before the first asynchronous request
RequestsAfterStart == log.chansAtFirst = Len(chans)

\* C4: three asynchronous requests can be enqueued back-to-back without waiting
\* for the worker, and when they are issued after Start and no worker received
\* one before the third was enqueued, no rebuild is ever made with the first
\* or the second one, and exactly one with the third (unless a later request
\* replaces it).
C4_Coalescing ==
    /\ \A t \in Threads : (pc[t] = "sf_send" /\ chanMade) => Len(chan) < ChanCap
    /\ (sent >= 3 /\ log.deqAtThird = 0 /\ RequestsAfterStart) =>
          /\ \A i \in DOMAIN log.deq : log.deq[i] >= 3
          /\ \A i \in DOMAIN log.installs : log.installs[i] >= 3
          /\ \A i \in DOMAIN log.returned : log.returned[i].req >= 3
          /\ Cardinality({i \in DOMAIN log.deq : log.deq[i] = 3}) <= 1
          /\ (sent = 3 /\ chan = <<>> /\ initLock = NoProc) => log.deq = <<3>>

\* C4 witness: the third of three coalesced requests has been installed
C4_Witness ==
    /\ sent = 3
    /\ log.deqAtThird = 0
    /\ log.deq = <<3>>
    /\ log.installs = <<3>>
    /\ RequestsAfterStart
    /\ \A w \in Workers : pc[w] \in {"w_off", "w_recv"}

\* no producer is inside SetFilters and no further call will be made
Quiet ==
    /\ ops = MaxCalls
    /\ \A t \in Threads : pc[t] \notin {"sf_lock", "sf_drain", "sf_send", "sf_unlock", "sf_nil"}

\* no synchronous rebuild is running and none has kept the engine lock
NoSyncRebuild ==
    /\ engineWriter \notin Threads
    /\ \A t \in Threads : pc[t] \notin {"if_lock", "if_build", "if_install1", "if_install2"}

\* C5: once the producers are done, the last submitted asynchronous request
\* is eventually dequeued and built by the worker (its initFiltering returns).
C5_LastRequestBuilt ==
    (Quiet /\ NoSyncRebuild /\ sent > 0)
       ~> (\E i \in DOMAIN log.returned : log.returned[i].req = sent)

\* C6: the block-pair match and the allow-pair re-check of one CheckHost use
\* pairs installed by one rebuild, and no reader holds the lock while only
\* some of the engine fields have been replaced.
C6_ReaderSeesOnePair ==
    /\ ~log.mixed
    /\ engineReaders # {} => \A p \in Procs : pc[p] # "if_install2"

(***************************************************************************)
(* The decision pipeline on its own: CheckHost, CheckHostRules and         *)
(* matchBlockedServicesRules applied to arguments drawn from catalogues,   *)
(* with engines that no rebuild replaces during the call.                  *)
(***************************************************************************)
list(id, rules) == [ID |-> id, Rules |-> rules, file |-> FALSE]

BlockEngines ==
    { NilEngine,
      Engine(<<list(0, <<ruleBlockA, ruleHost4B, ruleHost6C>>)>>),
      Engine(<<list(3, <<ruleHost6B, ruleHost4B>>), list(4, <<ruleAllowA, ruleBlockA>>)>>) }

AllowEngines ==
    { NilEngine,
      Engine(<<>>),
      Engine(<<list(5, <<ruleBlockA, ruleHost4B>>)>>) }

svcRuleX == NetRule("x", hA, FALSE)
svcRuleY == NetRule("y", hA, FALSE)
svcRuleZ == NetRule("z", hB, FALSE)

RewriteTables ==
    { <<>>,
      <<RewriteEntry(hA, TypeA, <<>>, "1.2.3.4"), RewriteEntry(hA, TypeA, <<>>, "5.6.7.8")>>,
      <<RewriteEntry(hB, TypeCNAME, hC, NilIP), RewriteEntry(hC, TypeCNAME, hB, NilIP)>> }

PipelineServices ==
    { <<>>,
      <<ServiceEntry("A", <<svcRuleX>>), ServiceEntry("B", <<svcRuleY>>)>>,
      <<ServiceEntry("B", <<svcRuleZ>>)>> }

PipelineHosts == {hEmpty, hA, hUpA, hB, hC, hUpC}
QTypes == {TypeA, TypeAAAA}

\* a classifier stage: whether the settings enable it, and what it would answer
Stage == { [on |-> FALSE, out |-> "match"], [on |-> TRUE, out |-> "none"],
           [on |-> TRUE, out |-> "match"], [on |-> TRUE, out |-> "err"] }

CheckHostInputs ==
    { [op |-> "CheckHost", host |-> h, qtype |-> q,
       setts |-> [FilteringEnabled |-> f, SafeSearchEnabled |-> ss.on,
                  SafeBrowsingEnabled |-> sb.on, ParentalEnabled |-> pa.on,
                  ServicesRules |-> sv],
       env |-> [Rewrites |-> tb, filteringEngine |-> be, filteringEngineWhite |-> we,
                safeSearch |-> ss.out, safeBrowsing |-> sb.out, parental |-> pa.out]] :
      h \in PipelineHosts, q \in QTypes, f \in BOOLEAN, ss \in Stage, sb \in Stage,
      pa \in Stage, sv \in PipelineServices, tb \in RewriteTables,
      be \in BlockEngines, we \in AllowEngines }

\* the longest list of services, and the rule lists a service may hold
MaxSvcs == 2
SvcRuleLists ==
    { <<>>, <<svcRuleX>>, <<svcRuleY>>, <<svcRuleZ>>,
      <<svcRuleZ, svcRuleX>>, <<svcRuleX, svcRuleY>>, <<svcRuleY, svcRuleX>> }
Services == { ServiceEntry(n, r) : n \in {"A", "B"}, r \in SvcRuleLists }

SeqsUpTo(S, n) == UNION { [1..k -> S] : k \in 0..n }

SvcInputs ==
    { [op |-> "matchBlockedServicesRules", host |-> h, svcs |-> sv] :
      h \in {hA, hB}, sv \in SeqsUpTo(Services, MaxSvcs) }

\* the answers engine.Match may give: nothing, a network rule (alone or next
\* to host rules), host rules of one family or of both
inList(rule, id) == [rule EXCEPT !.ListID = id]
EngineOutcomes ==
    { [ok |-> FALSE, NetworkRule |-> NoRule, HostRulesV4 |-> <<>>, HostRulesV6 |-> <<>>],
      [ok |-> TRUE, NetworkRule |-> inList(ruleBlockB, 7), HostRulesV4 |-> <<>>, HostRulesV6 |-> <<>>],
      [ok |-> TRUE, NetworkRule |-> inList(ruleBlockB, 7),
       HostRulesV4 |-> <<inList(ruleHost4B, 8)>>, HostRulesV6 |-> <<inList(ruleHost6B, 8)>>],
      [ok |-> TRUE, NetworkRule |-> inList(ruleAllowA, 7),
       HostRulesV4 |-> <<inList(ruleHost4B, 8)>>, HostRulesV6 |-> <<>>],
      [ok |-> TRUE, NetworkRule |-> NoRule,
       HostRulesV4 |-> <<inList(ruleHost4B, 8), inList(ruleHost4C, 9)>>, HostRulesV6 |-> <<>>],
      [ok |-> TRUE, NetworkRule |-> NoRule,
       HostRulesV4 |-> <<>>, HostRulesV6 |-> <<inList(ruleHost6C, 9), inList(ruleHost6B, 8)>>],
      [ok |-> TRUE, NetworkRule |-> NoRule,
       HostRulesV4 |-> <<inList(ruleHost4C, 9)>>, HostRulesV6 |-> <<inList(ruleHost6B, 8)>>] }

MatchInputs ==
    { [op |-> "matchHost", engineIsNil |-> n, rr |-> rr, qtype |-> q] :
      n \in BOOLEAN, rr \in EngineOutcomes, q \in {TypeA, TypeAAAA, TypeCNAME} }

InitPipeline ==
    /\ InitHotReload
    /\ storages = <<>>
    /\ pin \in CheckHostInputs \cup SvcInputs \cup MatchInputs
    /\ pout = NoPure
    /\ rw = NoRw

hotReloadVars == <<pc, loc, chans, initLock, engineWriter, engineReaders, storages,
                   rulesStorage, filteringEngine, rulesStorageWhite, filteringEngineWhite,
                   ops, sent, log>>

ApplyCheckHost ==
    /\ pin.op = "CheckHost"
    /\ pout = NoPure
    /\ pout' = [op |-> "CheckHost"] @@ CheckHost(pin.host, pin.qtype, pin.setts, pin.env)
    /\ UNCHANGED <<pin, rw, hotReloadVars>>

ApplyCheckHostRules ==
    /\ pin.op = "CheckHost"
    /\ pout = NoPure
    /\ pout' = [op |-> "CheckHostRules"]
                 @@ CheckHostRules(pin.host, pin.qtype, pin.setts, pin.env)
    /\ UNCHANGED <<pin, rw, hotReloadVars>>

ApplyMatchBlockedServicesRules ==
    /\ pin.op = "matchBlockedServicesRules"
    /\ pout = NoPure
    /\ pout' = [op |-> "matchBlockedServicesRules",
                res |-> matchBlockedServicesRules(pin.host, pin.svcs)]
    /\ UNCHANGED <<pin, rw, hotReloadVars>>

ApplyMatchHost ==
    /\ pin.op = "matchHost"
    /\ pout = NoPure
    /\ pout' = [op |-> "matchHost",
                res |-> matchHostAnswer(pin.engineIsNil, pin.rr, pin.qtype)]
    /\ UNCHANGED <<pin, rw, hotReloadVars>>

NextPipeline ==
    \/ ApplyCheckHost
    \/ ApplyCheckHostRules
    \/ ApplyMatchBlockedServicesRules
    \/ ApplyMatchHost

SpecPipeline == InitPipeline /\ [][NextPipeline]_vars

(***************************************************************************)
(* processRewrites step by step: one action per turn of the CNAME loop.    *)
(***************************************************************************)
\* the longest rewrite table, and the entries it is made of
MaxTable == 3
RewritePool ==
    { RewriteEntry(hA, TypeCNAME, hB, NilIP),
      RewriteEntry(hB, TypeCNAME, hA, NilIP),
      RewriteEntry(hB, TypeCNAME, hC, NilIP),
      RewriteEntry(hC, TypeCNAME, hC, NilIP),
      RewriteEntry(hA, TypeA, <<>>, "1.2.3.4"),
      RewriteEntry(hC, TypeA, <<>>, "5.6.7.8"),
      RewriteEntry(hC, TypeA, <<>>, "9.9.9.9"),
      RewriteEntry(hC, TypeAAAA, <<>>, "::9"),
      RewriteEntry(<<"*", "b">>, TypeA, <<>>, "7.7.7.7") }

RewriteHosts == {hA, hB, hC, hAB}
RewriteQTypes == {TypeA, TypeAAAA, TypeCNAME}

InitRewrite ==
    /\ InitHotReload
    /\ storages = <<>>
    /\ pin = NoPure
    /\ pout = NoPure
    /\ \E table \in SeqsUpTo(RewritePool, MaxTable), host \in RewriteHosts,
          qtype \in RewriteQTypes :
          rw = [table |-> table, qtype |-> qtype, pc |-> "loop"]
                 @@ rewriteStart(table, host)

\* a bound on the turns the model follows (the loop itself has none)
MaxHops == 8

\* lines 382-393: one turn of the loop
RewriteStep ==
    /\ rw.pc = "loop"
    /\ rewriteLoops(rw)
    /\ rw.hops < MaxHops
    /\ rw' = rewriteIter(rw.table, rw)
    /\ UNCHANGED <<pin, pout, hotReloadVars>>

\* lines 388 and 395-402: the loop is left and the Result returned
RewriteReturn ==
    /\ rw.pc = "loop"
    /\ ~rewriteLoops(rw)
    /\ rw' = [rw EXCEPT !.res = rewriteFinish(rw, rw.qtype), !.pc = "done"]
    /\ UNCHANGED <<pin, pout, hotReloadVars>>

NextRewrite == RewriteStep \/ RewriteReturn

SpecRewrite == InitRewrite /\ [][NextRewrite]_vars

(***************************************************************************)
(* Properties of the decision pipeline.                                    *)
(***************************************************************************)
pinHost == ToLower(pin.host)

\* the host matches a block rule and the allow pair, filtering is on, and no
\* rewrite matches the host
PrecedenceCase ==
    /\ pout.op = "CheckHost"
    /\ pin.host # <<>>
    /\ pin.setts.FilteringEnabled
    /\ findRewrites(pin.env.Rewrites, pinHost) = <<>>
    /\ matchHost(pin.env.filteringEngine, pinHost, pin.qtype).Reason = FilteredBlackList
    /\ Matched(matchHost(pin.env.filteringEngineWhite, pinHost, pin.qtype).Reason)

laterStageMatches ==
    \/ \E i \in DOMAIN pin.setts.ServicesRules :
          \E j \in DOMAIN pin.setts.ServicesRules[i].Rules :
             RuleMatch(pin.setts.ServicesRules[i].Rules[j], pinHost)
    \/ pin.setts.SafeSearchEnabled /\ pin.env.safeSearch = "match"
    \/ pin.setts.SafeBrowsingEnabled /\ pin.env.safeBrowsing = "match"
    \/ pin.setts.ParentalEnabled /\ pin.env.parental = "match"

\* C3, as stated: a host that matches a block rule and the allow pair gets the
\* zero Result, whatever the blocked services and the classifier flags are.
C3_PrecedenceWhateverLaterStages ==
    PrecedenceCase => pout.res = ZeroResult

\* C3, amended: a host that matches a block rule and the allow pair gets no
\* decision from the rule lists; CheckHost goes on to the blocked services and
\* the enabled classifiers and returns the zero Result unless one of them
\* matches, never the block rule's or the allow rule's Result.
C3_Precedence ==
    PrecedenceCase =>
       /\ pout.res.Reason \in {NotFilteredNotFound, FilteredBlockedService,
                               FilteredSafeSearch, FilteredSafeBrowsing, FilteredParental}
       /\ SubSeq(pout.trace, 1, 3) = <<"rewrites", "block", "allow">>
       /\ ~laterStageMatches => pout.res = ZeroResult
       /\ pout.res # ZeroResult => laterStageMatches

\* C3 witness: block and allow both match, later stages are on, the Result is zero
C3_Witness ==
    /\ PrecedenceCase
    /\ pin.setts.ServicesRules # <<>>
    /\ pin.setts.SafeSearchEnabled
    /\ pout.res = ZeroResult

RewriteCase ==
    /\ pout.op = "CheckHost"
    /\ pin.host # <<>>
    /\ findRewrites(pin.env.Rewrites, pinHost) # <<>>

\* C7: when the rewrite table has an entry matching the lower-cased host,
\* CheckHost returns Reason = rewrite and consults no later stage.
C7_RewritePrecedence ==
    RewriteCase =>
       /\ pout.res.Reason = ReasonRewrite
       /\ pout.trace = <<"rewrites">>
       /\ ~pout.err

\* C7 witness: a rewrite with an empty address list on a host a block rule matches
C7_Witness ==
    /\ RewriteCase
    /\ pin.setts.FilteringEnabled
    /\ matchHost(pin.env.filteringEngine, pinHost, pin.qtype).Reason = FilteredBlackList
    /\ pout.res.IPList = <<>>
    /\ pout.res.Reason = ReasonRewrite

\* the first rewrite entry for a host is a CNAME to answer
firstIsCNAME(table, host, answer) ==
    LET rr == findRewrites(table, host)
    IN rr # <<>> /\ rr[1].Type = TypeCNAME /\ rr[1].Answer = answer

\* C8: processRewrites terminates: every substituted host is new, so the loop
\* takes at most one turn per table entry plus the one that finds the repeat;
\* on a cycle it returns Reason = rewrite, the last name reached before the
\* repeat and no addresses (for a -> b -> a asked for a: the name a).
C8_RewriteCycleSafe ==
    rw.pc # "off" =>
       /\ rw.hops <= Len(rw.table) + 1
       /\ Cardinality(rw.cnames) = rw.hops - (IF rw.returned THEN 1 ELSE 0)
       /\ (rw.pc = "done" /\ rw.returned) =>
             /\ rw.res.Reason = ReasonRewrite
             /\ rw.res.IPList = <<>>
             /\ rw.res.CanonName \in rw.cnames
             /\ rw.host \in rw.cnames
             /\ firstIsCNAME(rw.table, rw.res.CanonName, rw.host)
       /\ (rw.pc = "done" /\ rw.origHost = hA /\ firstIsCNAME(rw.table, hA, hB)
             /\ firstIsCNAME(rw.table, hB, hA)) =>
             /\ rw.returned
             /\ rw.res.Reason = ReasonRewrite
             /\ rw.res.CanonName = hA
             /\ rw.res.IPList = <<>>

\* C8 witness: the chain a -> b -> a, asked for a, has been resolved
C8_Witness ==
    /\ rw.pc = "done"
    /\ rw.origHost = hA
    /\ firstIsCNAME(rw.table, hA, hB)
    /\ firstIsCNAME(rw.table, hB, hA)
    /\ rw.hops = 3
    /\ rw.res.CanonName = hA

\* the addresses of a sequence of entries
IPsOf(entries) == [i \in DOMAIN entries |-> entries[i].IP]

\* C9: when the chain ends at a host whose first entry is no CNAME, the address
\* list holds the addresses of the entries at that host of the queried type,
\* in table order, and the canonical name is the last CNAME answer, if any.
C9_RewriteFanOut ==
    (rw.pc = "done" /\ ~rw.returned) =>
       /\ rw.res.IPList =
             IPsOf(SelectSeq(findRewrites(rw.table, rw.host),
                             LAMBDA e : e.Type = rw.qtype /\ e.Type \in {TypeA, TypeAAAA}))
       /\ rw.res.CanonName = (IF rw.hops = 0 THEN <<>> ELSE rw.host)
       /\ rw.res.Reason = (IF findRewrites(rw.table, rw.origHost) # <<>>
                           THEN ReasonRewrite ELSE NotFilteredNotFound)

\* C9 witness: two addresses of the queried type among entries of another type
C9_Witness ==
    /\ rw.pc = "done"
    /\ ~rw.returned
    /\ rw.res.IPList = <<"5.6.7.8", "9.9.9.9">>
    /\ \E i \in DOMAIN rw.table : rw.table[i].Domain = rw.host /\ rw.table[i].Type = TypeAAAA

\* the places (service, rule) of the rules that match the host
svcMatches(svcs, host) ==
    UNION { { <<i, j>> : j \in { k \in DOMAIN svcs[i].Rules : RuleMatch(svcs[i].Rules[k], host) } } :
            i \in DOMAIN svcs }

firstPlace(M) ==
    CHOOSE m \in M : \A n \in M : m[1] < n[1] \/ (m[1] = n[1] /\ m[2] <= n[2])

\* C10: matchBlockedServicesRules reports the first matching rule in list order
\* of the services and, in a service, of its rules; the zero Result if none.
C10_BlockedServiceOrder ==
    pout.op = "matchBlockedServicesRules" =>
       LET M == svcMatches(pin.svcs, pin.host)
       IN IF M = {} THEN pout.res = ZeroResult
          ELSE LET m == firstPlace(M)
               IN pout.res = [ZeroResult EXCEPT
                                 !.Reason = FilteredBlockedService,
                                 !.IsFiltered = TRUE,
                                 !.ServiceName = pin.svcs[m[1]].Name,
                                 !.Rule = pin.svcs[m[1]].Rules[m[2]].Text]

\* C10 witness: two services match and the first one is reported
C10_Witness ==
    /\ pout.op = "matchBlockedServicesRules"
    /\ Len(pin.svcs) = 2
    /\ pin.svcs[1].Name = "A" /\ pin.svcs[2].Name = "B"
    /\ firstRule(pin.svcs[1].Rules, pin.host) # NoRule
    /\ firstRule(pin.svcs[2].Rules, pin.host) # NoRule
    /\ pout.res.ServiceName = "A"
    /\ pout.res.Reason = FilteredBlockedService

\* the decision of the rule-list stage of CheckHost (lines 300-313) on a host
ruleListDecision(host, qtype, setts, env) ==
    IF ~setts.FilteringEnabled THEN ZeroResult
    ELSE LET r == matchHost(env.filteringEngine, host, qtype)
         IN IF needsWhiteCheck(r)
            THEN whiteOverride(r, matchHost(env.filteringEngineWhite, host, qtype))
            ELSE r

\* C11: on a lower-case host CheckHostRules returns what the rule-list stage
\* of CheckHost decides: the zero Result when filtering is off, else the
\* block-pair match with the whitelist override applied.
C11_RulesOnlyIsRuleStage ==
    (pout.op = "CheckHostRules" /\ pin.host # <<>> /\ pin.host = ToLower(pin.host)) =>
       /\ ~pout.err
       /\ pout.res = ruleListDecision(pin.host, pin.qtype, pin.setts, pin.env)

\* C12: CheckHost on the empty host returns the zero Result and no error, and
\* invokes no stage: neither the rewrite resolver, nor matchHost (the only
\* place the engine lock is taken), nor the services matcher, nor a classifier.
C12_EmptyHost ==
    (pout.op = "CheckHost" /\ pin.host = <<>>) =>
       /\ pout.res = ZeroResult
       /\ ~pout.res.IsFiltered /\ pout.res.Reason = NotFilteredNotFound
       /\ ~pout.err
       /\ pout.trace = <<>>

\* C12 witness: the empty host with every stage enabled and ready to match
C12_Witness ==
    /\ pout.op = "CheckHost"
    /\ pin.host = <<>>
    /\ pin.setts.FilteringEnabled /\ ~pin.env.filteringEngine.nil
    /\ pin.setts.ServicesRules # <<>>
    /\ pin.setts.SafeSearchEnabled /\ pin.env.safeSearch = "match"
    /\ pin.env.Rewrites # <<>>
    /\ pout.res = ZeroResult

\* host names that differ by letter case only
CaseVariants == { {hA, hUpA}, {hC, hUpC} }

\* C13: CheckHost returns the same Result, and consults the same stages, for
\* a host and for every case variant of it.
C13_CaseInsensitive ==
    pout.op = "CheckHost" =>
       \A S \in CaseVariants :
          pin.host \in S =>
             \A v \in S :
                LET o == CheckHost(v, pin.qtype, pin.setts, pin.env)
                IN /\ o.res = pout.res
                   /\ o.err = pout.err
                   /\ o.trace = pout.trace

\* C13 witness: the upper-case variant "C" of the host "c" is blocked by the
\* host rule written for "c", with the rule's address
C13_Witness ==
    /\ pout.op = "CheckHost"
    /\ pin.host = hUpC
    /\ pin.qtype = TypeAAAA
    /\ pin.env.Rewrites = <<>>
    /\ pout.res.Reason = FilteredBlackList
    /\ pout.res.Rule = "::2 c"
    /\ pout.res.IP = "::2"
    /\ pout.trace = <<"rewrites", "block", "allow">>

\* the Result that reports a rule
ruleResult(rule, reason, filtered, ip) ==
    [ZeroResult EXCEPT !.Reason = reason, !.IsFiltered = filtered,
                       !.Rule = rule.Text, !.FilterID = rule.ListID, !.IP = ip]

\* C14: matchHost resolves an engine answer by (1) the network rule, allow or
\* block, before any host rule; (2) else the first host rule of the queried
\* family with its address; (3) else the first host rule there is, IPv4 first,
\* without an address; (4) else, and with no engine installed, the zero Result.
C14_MatchPolicy ==
    pout.op = "matchHost" =>
       LET rr == pin.rr
           q == pin.qtype
           v4 == rr.HostRulesV4
           v6 == rr.HostRulesV6
       IN CASE pin.engineIsNil \/ ~rr.ok -> pout.res = ZeroResult
            [] OTHER ->
               CASE rr.NetworkRule # NoRule /\ rr.NetworkRule.Whitelist ->
                       pout.res = ruleResult(rr.NetworkRule, NotFilteredWhiteList, FALSE, NilIP)
                 [] rr.NetworkRule # NoRule /\ ~rr.NetworkRule.Whitelist ->
                       pout.res = ruleResult(rr.NetworkRule, FilteredBlackList, TRUE, NilIP)
                 [] rr.NetworkRule = NoRule /\ q = TypeA /\ v4 # <<>> ->
                       pout.res = ruleResult(v4[1], FilteredBlackList, TRUE, v4[1].IP)
                 [] rr.NetworkRule = NoRule /\ q = TypeAAAA /\ v6 # <<>> ->
                       pout.res = ruleResult(v6[1], FilteredBlackList, TRUE, v6[1].IP)
                 [] OTHER ->
                       pout.res = ruleResult(IF v4 # <<>> THEN v4[1] ELSE v6[1],
                                             FilteredBlackList, TRUE, EmptyIP)

\* C14 witness: an allow rule next to a host rule of the queried family
C14_Witness ==
    /\ pout.op = "matchHost"
    /\ ~pin.engineIsNil
    /\ pin.qtype = TypeA
    /\ pin.rr.NetworkRule # NoRule /\ pin.rr.NetworkRule.Whitelist
    /\ pin.rr.HostRulesV4 # <<>>
    /\ pout.res.Reason = NotFilteredWhiteList
    /\ ~pout.res.IsFiltered

\* what the environment makes a classifier stage answer
classifierOutcome(stage) ==
    CASE stage = "safesearch"   -> pin.env.safeSearch
      [] stage = "safebrowsing" -> pin.env.safeBrowsing
      [] stage = "parental"     -> pin.env.parental
      [] OTHER                  -> "none"

\* C15: when a classifier stage that CheckHost invokes fails, CheckHost
\* returns the zero Result and no error, and that stage is the last one invoked.
C15_FailOpen ==
    pout.op = "CheckHost" =>
       \A i \in DOMAIN pout.trace :
          classifierOutcome(pout.trace[i]) = "err" =>
             /\ i = Len(pout.trace)
             /\ pout.res = ZeroResult
             /\ ~pout.err

\* C15 witness: safe search fails while safe browsing is enabled and would match
C15_Witness ==
    /\ pout.op = "CheckHost"
    /\ pout.trace # <<>>
    /\ pout.trace[Len(pout.trace)] = "safesearch"
    /\ pin.env.safeSearch = "err"
    /\ pin.setts.SafeBrowsingEnabled /\ pin.env.safeBrowsing = "match"
    /\ pin.setts.ParentalEnabled /\ pin.env.parental = "match"
    /\ pout.res = ZeroResult

\* the place of a stage in the fixed order; the allow-pair re-check belongs
\* to the rule-list stage
stageRank(stage) ==
    CASE stage = "rewrites" -> 1 [] stage = "block" -> 2 [] stage = "allow" -> 3
      [] stage = "services" -> 4 [] stage = "safesearch" -> 5
      [] stage = "safebrowsing" -> 6 [] stage = "parental" -> 7

\* what each stage answers for the request, were it invoked
stageAnswers ==
    LET h == ToLower(pin.host)
    IN [rewrites     |-> [res |-> processRewrites(pin.env.Rewrites, h, pin.qtype), err |-> FALSE],
        rules        |-> [res |-> ruleListDecision(h, pin.qtype, pin.setts, pin.env), err |-> FALSE],
        services     |-> [res |-> matchBlockedServicesRules(h, pin.setts.ServicesRules), err |-> FALSE],
        safesearch   |-> classify(pin.env.safeSearch, FilteredSafeSearch),
        safebrowsing |-> classify(pin.env.safeBrowsing, FilteredSafeBrowsing),
        parental     |-> classify(pin.env.parental, FilteredParental)]

stageEnabled ==
    [rewrites     |-> TRUE,
     rules        |-> pin.setts.FilteringEnabled,
     services     |-> pin.setts.ServicesRules # <<>>,
     safesearch   |-> pin.setts.SafeSearchEnabled,
     safebrowsing |-> pin.setts.SafeBrowsingEnabled,
     parental     |-> pin.setts.ParentalEnabled]

stageOrder == <<"rewrites", "rules", "services", "safesearch", "safebrowsing", "parental">>

\* a stage ends the pipeline when it is enabled and matches or fails
stageStops(i) ==
    /\ stageEnabled[stageOrder[i]]
    /\ \/ stageAnswers[stageOrder[i]].err
       \/ Matched(stageAnswers[stageOrder[i]].res.Reason)

\* a stage is due when it is enabled and no earlier stage ended the pipeline
stageDue(i) ==
    /\ stageEnabled[stageOrder[i]]
    /\ \A j \in 1..(i - 1) : ~stageStops(j)

stageInTrace(i) ==
    IF stageOrder[i] = "rules" THEN "block" \in { pout.trace[k] : k \in DOMAIN pout.trace }
    ELSE stageOrder[i] \in { pout.trace[k] : k \in DOMAIN pout.trace }

\* C16: for a non-empty host the stages are invoked in the fixed order, a
\* stage exactly when it is enabled and no earlier stage matched or failed,
\* and the Result is that of the first stage that matched, else the zero Result.
C16_StageOrder ==
    (pout.op = "CheckHost" /\ pin.host # <<>>) =>
       /\ \A i, j \in DOMAIN pout.trace :
             i < j => stageRank(pout.trace[i]) < stageRank(pout.trace[j])
       /\ \A i \in DOMAIN stageOrder : stageInTrace(i) <=> stageDue(i)
       /\ ~pout.err
       /\ IF \E i \in DOMAIN stageOrder :
                stageDue(i) /\ Matched(stageAnswers[stageOrder[i]].res.Reason)
                            /\ ~stageAnswers[stageOrder[i]].err
          THEN \E i \in DOMAIN stageOrder :
                 /\ stageDue(i)
                 /\ Matched(stageAnswers[stageOrder[i]].res.Reason)
                 /\ pout.res = stageAnswers[stageOrder[i]].res
          ELSE pout.res = ZeroResult

\* C16 witness: every stage up to safe browsing was invoked and it matched
C16_Witness ==
    /\ pout.op = "CheckHost"
    /\ pout.trace = <<"rewrites", "block", "allow", "services", "safesearch", "safebrowsing">>
    /\ pin.setts.ParentalEnabled
    /\ pout.res.Reason = FilteredSafeBrowsing

\* C17: no match runs on an engine whose rule storage has been closed, and
\* the storage of the engine a reader uses stays open while the reader holds
\* the engine lock.
C17_ReadersSeeOpenStorage ==
    /\ ~log.staleRead
    /\ \A t \in engineReaders :
          loc[t].engine # 0 => storages[loc[t].engine].closes = 0

\* a sequence of request numbers that only grows
increasing(q) == \A i, j \in DOMAIN q : i < j => q[i] < q[j]

\* C18: the requests are handled one at a time, each at most once, and in
\* submission order: the requests received, the ones whose rebuild returns
\* and the ones whose pairs are installed carry increasing submission
\* numbers, and at most one received request has not returned.
C18_AsyncInOrder ==
    /\ increasing(log.deq)
    /\ increasing(log.installs)
    /\ increasing([i \in DOMAIN log.returned |-> log.returned[i].req])
    /\ \A i \in DOMAIN log.deq : log.deq[i] \in 1..sent
    /\ \A i \in DOMAIN log.installs : \E j \in DOMAIN log.deq : log.deq[j] = log.installs[i]
    /\ Len(log.deq) <= Len(log.returned) + 1
    /\ Cardinality({w \in Workers : pc[w] \notin {"w_off", "w_recv"}}) <= 1

\* a storage that is neither installed nor about to be installed by a rebuild
\* that has built it
superseded(id) ==
    /\ id \notin {rulesStorage, rulesStorageWhite}
    /\ \A p \in Procs :
          pc[p] \in {"if_install1", "if_install2"} => id \notin {loc[p].rs, loc[p].rsw}

\* C19: every rule storage built is closed at most once, and every storage
\* that is not, or no longer, the installed one has been closed.
C19_Disposal ==
    \A id \in DOMAIN storages :
       /\ storages[id].closes <= 1
       /\ superseded(id) => storages[id].closes = 1

\* a producer inside the locked part of SetFilters whose next step can be taken
producerCanStep(t) ==
    \/ pc[t] = "sf_drain" /\ ENABLED AsyncDrain(t)
    \/ pc[t] = "sf_send" /\ chanMade /\ Len(chan) < ChanCap /\ ENABLED AsyncSend(t)
    \/ pc[t] = "sf_unlock" /\ ENABLED AsyncUnlock(t)

\* C20: with the queue made by Start, the queue never holds more than one
\* request, the producers' lock is held only from the drain to the unlock, a
\* producer that is about to send finds the queue empty, and no producer
\* ever waits: at the lock it finds the lock free or held by a producer that
\* can step, whatever the worker is doing.
C20_EnqueueNeverBlocks ==
    /\ Len(chan) <= ChanCap
    /\ \A t \in Threads :
          /\ (pc[t] = "sf_send" /\ chanMade) => (chan = <<>> /\ producerCanStep(t))
          /\ initLock = t <=> pc[t] \in {"sf_drain", "sf_send", "sf_unlock", "sf_nil"}
          /\ (pc[t] \in {"sf_drain", "sf_unlock"}) => producerCanStep(t)
          /\ (pc[t] = "sf_lock" /\ chanMade) =>
                \/ initLock = NoProc /\ ENABLED AsyncLock(t)
                \/ initLock \in Threads \ {t} /\ producerCanStep(initLock)

=============================================================================
